---- MODULE Spec2Model ----
\* A model of the retrieval pipeline of the DE-project backend:
\*   embed_content.py  chunk_text, process_extracted_content
\*   rag.py            ExcelLoader.load, init_knowledge_base, search_knowledge
\*   pdf_extractor.py  extract_all_pdfs_in_folder
\* Strings are sequences of one-character strings, so that slicing, stripping
\* and joining are computed the way Python computes them.
EXTENDS Integers, Sequences, FiniteSets, Bags, TLC

\* ---------------------------------------------------------------------------
\* Bounds of the model
\* ---------------------------------------------------------------------------
MaxLen == 4
MaxSize == 3

\* ---------------------------------------------------------------------------
\* Python string helpers
\* ---------------------------------------------------------------------------
Chars == {"a", " "}

IsSpace(c) == c \in {" ", "\n", "\t"}

Min(a, b) == IF a < b THEN a ELSE b
Max(a, b) == IF a > b THEN a ELSE b

\* Every sequence over S of length at most n.
SeqsUpTo(S, n) == UNION {[1..k -> S] : k \in 0..n}

\* s[i:j] for integers i, j (negative indices count from the end, indices
\* are clipped to the string, an empty range gives the empty string).
PySlice(s, i, j) ==
    LET n  == Len(s)
        lo == IF i < 0 THEN Max(i + n, 0) ELSE Min(i, n)
        hi == IF j < 0 THEN Max(j + n, 0) ELSE Min(j, n)
    IN  IF lo >= hi THEN <<>> ELSE SubSeq(s, lo + 1, hi)

RECURSIVE LStrip(_)
LStrip(s) == IF s # <<>> /\ IsSpace(Head(s)) THEN LStrip(Tail(s)) ELSE s

RECURSIVE RStrip(_)
RStrip(s) ==
    IF s # <<>> /\ IsSpace(s[Len(s)]) THEN RStrip(SubSeq(s, 1, Len(s) - 1)) ELSE s

\* str.strip()
Strip(s) == RStrip(LStrip(s))

\* sep.join(parts)
RECURSIVE Join(_, _)
Join(parts, sep) ==
    IF parts = <<>> THEN <<>>
    ELSE IF Len(parts) = 1 THEN parts[1]
    ELSE parts[1] \o sep \o Join(Tail(parts), sep)

\* ---------------------------------------------------------------------------
\* State
\* ---------------------------------------------------------------------------
VARIABLES
    \* chunk_text: one call in progress
    ct_pc,        \* "idle", "loop" (at the while test), "done" (returned), "error" (raised)
    ct_text,      \* argument text
    ct_size,      \* argument chunk_size
    ct_overlap,   \* argument overlap
    ct_start,     \* local start
    ct_chunks,    \* local chunks
    \* ExcelLoader: one loader object and its load()
    xl_pc,        \* "idle" (constructed), "done" (load returned)
    xl_wb,        \* the workbook at self.file_path
    xl_docs,      \* what load() returned
    \* the knowledge-base directory config.KNOWLEDGE_BASE_PATH
    fs_exists,    \* the directory exists
    fs_files,     \* the files in it
    fs_bad,       \* the files in it that cannot be read
    \* rag.py module state and one call of init_knowledge_base
    vector_db,    \* the global: None or an index
    b_pc,         \* "idle", "exists", "load", "check", "build"
    b_loader,     \* position in loaders (line 74)
    b_documents,  \* local documents
    b_new,        \* the index FAISS.from_documents is constructing
    b_outcome,    \* how the last call ended: "none", "created", "empty", "built", "failed"
    ever_built,   \* some call has assigned vector_db
    \* one call of search_knowledge
    q_pc,         \* "idle", "check", "search", "done" (returned), "raised"
    q_query,      \* argument query
    q_k,          \* argument top_k
    q_used,       \* the value of vector_db the call searched
    q_docs,       \* local relevant_docs
    q_result,     \* the returned string
    q_clean,      \* no call of init_knowledge_base was running or started since the call began
    \* pdf_extractor.py: extract_all_pdfs_in_folder on the same directory
    pe_pc,        \* "idle", "done", "raised"
    pe_results,   \* the returned results
    \* the extracted-content directory and the embedding backend
    cd_exists,    \* the directory exists
    cd_folders,   \* its document folders: name -> [text, images]
    emb_bad,      \* the units the backend fails on (fixed: the backend is deterministic)
    \* MongoDB and one call of process_extracted_content
    db_coll,      \* the embeddings collection, a bag of records (_id left out)
    pec_pc,       \* "idle", "connected", "cleared", "folders", "done", "early", "raised"
    pec_todo,     \* the folders iterdir has not yielded yet
    pec_client,   \* the MongoClient of the call: "none", "open", "closed"
    pec_deleted,  \* the records delete_many removed, while the call is at lines 116-123
    pec_runs,     \* calls returned since the directory last changed
    db_first,     \* the collection as the first of these calls left it
    \* pdf_extractor.py: the text extraction of one call of extract_pdf_content
    cl_pc,        \* "idle", "pages" (in the loop of line 36), "done", "none" (returned None)
    cl_total,     \* total_pages
    cl_num,       \* pages of the loop passed
    cl_text,      \* local text of the last pass
    cl_all_text,  \* local all_text
    cl_full_text  \* local full_text

ctVars == <<ct_pc, ct_text, ct_size, ct_overlap, ct_start, ct_chunks>>
xlVars == <<xl_pc, xl_wb, xl_docs>>
fsVars == <<fs_exists, fs_files, fs_bad>>
bVars  == <<vector_db, b_pc, b_loader, b_documents, b_new, b_outcome, ever_built>>
qVars  == <<q_pc, q_query, q_k, q_used, q_docs, q_result, q_clean>>
peVars == <<pe_pc, pe_results>>
pecVars == <<cd_exists, cd_folders, emb_bad, db_coll, pec_pc, pec_todo, pec_client,
             pec_deleted, pec_runs, db_first>>

clVars == <<cl_pc, cl_total, cl_num, cl_text, cl_all_text, cl_full_text>>

vars == <<ctVars, xlVars, fsVars, bVars, qVars, peVars, pecVars, clVars>>

\* ---------------------------------------------------------------------------
\* embed_content.py: chunk_text
\* ---------------------------------------------------------------------------
\* A non-terminating call makes start or chunks grow without bound; the loop
\* is followed only while both stay within ChunkCap.
ChunkCap == MaxLen + 2

Texts == SeqsUpTo(Chars, MaxLen)
Sizes == -1..MaxSize

\* A text of 15 characters without whitespace, chunked with chunk_size=5 and
\* overlap=2.
ExampleText ==
    <<"A", "A", "A", "A", "A", "B", "B", "B", "B", "B", "C", "C", "C", "C", "C">>
ExampleCall == <<ExampleText, 5, 2>>

\* The arguments chunk_text is called with.
ChunkCalls == (Texts \X Sizes \X Sizes) \cup {ExampleCall}

\* One pass through the body of the while loop (lines 50-56).
ChunkBodyStepSize(text, size, overlap, start, chunks) ==
    LET end   == start + size
        chunk == PySlice(text, start, end)
    IN  [start  |-> start + size,
         chunks |-> IF Strip(chunk) # <<>> THEN Append(chunks, Strip(chunk)) ELSE chunks]

\* One pass through the body of the while loop (lines 50-56).
ChunkBodyLongWindow(text, size, overlap, start, chunks) ==
    LET end   == start + size + overlap
        chunk == PySlice(text, start, end)
    IN  [start  |-> start + size - overlap,
         chunks |-> IF Strip(chunk) # <<>> THEN Append(chunks, Strip(chunk)) ELSE chunks]

ChunkBody(text, size, overlap, start, chunks) ==
    LET end   == start + size
        chunk == PySlice(text, start, end)
    IN  [start  |-> start + size - overlap,
         chunks |-> IF Strip(chunk) # <<>> THEN Append(chunks, Strip(chunk)) ELSE chunks]

\* The call: lines 45-47.
ChunkCall ==
    /\ ct_pc \in {"idle", "done"}
    /\ \E call \in ChunkCalls :
          /\ ct_text' = call[1]
          /\ ct_size' = call[2]
          /\ ct_overlap' = call[3]
    /\ ct_start' = 0
    /\ ct_chunks' = <<>>
    /\ ct_pc' = "loop"
    /\ UNCHANGED <<xlVars, fsVars, bVars, qVars, peVars, pecVars, clVars>>

\* The while test with one pass through the body: lines 49-56.
ChunkLoop ==
    /\ ct_pc = "loop"
    /\ ct_start < Len(ct_text)
    /\ Len(ct_chunks) < ChunkCap
    /\ ct_start > -ChunkCap
    /\ LET r == ChunkBody(ct_text, ct_size, ct_overlap, ct_start, ct_chunks)
       IN  /\ ct_start' = r.start
           /\ ct_chunks' = r.chunks
    /\ UNCHANGED <<ct_pc, ct_text, ct_size, ct_overlap>>
    /\ UNCHANGED <<xlVars, fsVars, bVars, qVars, peVars, pecVars, clVars>>

\* The while test fails: line 58.
ChunkReturn ==
    /\ ct_pc = "loop"
    /\ ~(ct_start < Len(ct_text))
    /\ ct_pc' = "done"
    /\ UNCHANGED <<ct_text, ct_size, ct_overlap, ct_start, ct_chunks>>
    /\ UNCHANGED <<xlVars, fsVars, bVars, qVars, peVars, pecVars, clVars>>

\* ---------------------------------------------------------------------------
\* rag.py: ExcelLoader
\* ---------------------------------------------------------------------------
MaxSheets == 3

\* Cell values: an integer or a string.
CellInt(v) == [t |-> "int", v |-> v]
CellStr(v) == [t |-> "str", v |-> v]

DigitChars == <<"0", "1", "2", "3", "4", "5", "6", "7", "8", "9">>

\* str(cell) of line 32.
Str(cell) == IF cell.t = "int" THEN <<DigitChars[cell.v + 1]>> ELSE cell.v

\* The tables a worksheet holds in the model: no row, or two rows.
Tables == { <<>>, << <<CellInt(7), CellStr(<<"a">>)>>, <<CellStr(<<"b">>)>> >> }

\* A worksheet: ok is FALSE when pd.read_excel or the conversion of its rows
\* raises. A workbook: opens is FALSE when pd.ExcelFile raises.
Sheets == [ok : BOOLEAN, rows : Tables]
Workbooks == [opens : BOOLEAN, sheets : SeqsUpTo(Sheets, MaxSheets)]

MapSeq(Op(_), s) == [i \in 1..Len(s) |-> Op(s[i])]

\* Line 32: "\n".join([", ".join(map(str, row)) for _, row in df.iterrows()])
RowText(row) == Join(MapSeq(Str, row), <<",", " ">>)
SheetText(rows) == Join(MapSeq(RowText, rows), <<"\n">>)

\* Lines 34-37. A worksheet is named by its position in the workbook.
SheetDocument(path, i, rows) ==
    [page_content |-> SheetText(rows), source |-> path, detail |-> i]

\* The for loop of lines 29-37 from worksheet i on, inside the try of line 26:
\* the first worksheet that raises ends the loop (line 38).
RECURSIVE ExcelSheets(_, _, _, _)
ExcelSheets(path, sheets, i, documents) ==
    IF i > Len(sheets) THEN documents
    ELSE IF ~sheets[i].ok THEN documents
    ELSE ExcelSheets(path, sheets, i + 1,
                     Append(documents, SheetDocument(path, i, sheets[i].rows)))

\* ExcelLoader.load, lines 24-40.
ExcelLoaderLoad(path, wb) ==
    IF ~wb.opens THEN <<>> ELSE ExcelSheets(path, wb.sheets, 1, <<>>)

XlPath == "book.xlsx"

\* ExcelLoader(file_path), lines 21-22, on some workbook.
XlNew ==
    /\ xl_pc \in {"idle", "done"}
    /\ xl_wb' \in Workbooks
    /\ xl_docs' = <<>>
    /\ xl_pc' = "idle"
    /\ UNCHANGED <<ctVars, fsVars, bVars, qVars, peVars, pecVars, clVars>>

\* load(), lines 24-40.
XlLoad ==
    /\ xl_pc = "idle"
    /\ xl_docs' = ExcelLoaderLoad(XlPath, xl_wb)
    /\ xl_pc' = "done"
    /\ UNCHANGED <<xl_wb>>
    /\ UNCHANGED <<ctVars, fsVars, bVars, qVars, peVars, pecVars, clVars>>

\* ---------------------------------------------------------------------------
\* The knowledge-base directory
\* ---------------------------------------------------------------------------
FileOrder == <<"a.txt", "b.txt", "c.pdf", "d.pdf", "e.xlsx">>
FileNames == {FileOrder[i] : i \in 1..Len(FileOrder)}

\* The files the retrieval service is exercised with.
RagFiles == {"a.txt", "b.txt", "e.xlsx"}

\* The files batch ingestion is exercised with.
IngestFiles == {"a.txt", "b.txt", "c.pdf", "d.pdf"}

Ext(f) ==
    CASE f \in {"a.txt", "b.txt"} -> "txt"
      [] f \in {"c.pdf", "d.pdf"} -> "pdf"
      [] OTHER                    -> "xlsx"

\* The content of the text files.
FileText(f) == IF f = "a.txt" THEN <<"a", "a">> ELSE <<" ", "a", "b">>

\* The text of the pages of the PDF files.
PdfPages(f) == IF f = "c.pdf" THEN << <<"a", "b", "b">> >> ELSE << <<"b">>, <<"a">> >>

\* The worksheets of the workbook: one with two rows, one without rows.
BookSheets ==
    << [ok |-> TRUE, rows |-> << <<CellInt(7), CellStr(<<"a">>)>>, <<CellStr(<<"b">>)>> >>],
       [ok |-> TRUE, rows |-> <<>>] >>

\* A user creates the directory.
FsMkdir ==
    /\ ~fs_exists
    /\ b_pc = "idle"
    /\ fs_exists' = TRUE
    /\ UNCHANGED <<fs_files, fs_bad>>
    /\ UNCHANGED <<ctVars, xlVars, bVars, qVars, peVars, pecVars, clVars>>

\* A user puts a file of the set F, readable or not, into the directory.
FsPut(F) ==
    /\ fs_exists
    /\ b_pc = "idle"
    /\ \E f \in F, bad \in BOOLEAN :
          /\ fs_files' = fs_files \cup {f}
          /\ fs_bad' = IF bad THEN fs_bad \cup {f} ELSE fs_bad \ {f}
    /\ UNCHANGED <<fs_exists>>
    /\ UNCHANGED <<ctVars, xlVars, bVars, qVars, peVars, pecVars, clVars>>

\* A user removes a file.
FsRemove ==
    /\ b_pc = "idle"
    /\ \E f \in fs_files :
          /\ fs_files' = fs_files \ {f}
          /\ fs_bad' = fs_bad \ {f}
    /\ UNCHANGED <<fs_exists>>
    /\ UNCHANGED <<ctVars, xlVars, bVars, qVars, peVars, pecVars, clVars>>

\* ---------------------------------------------------------------------------
\* rag.py: the loaders of init_knowledge_base
\* ---------------------------------------------------------------------------
\* The globs of the four DirectoryLoaders, lines 55-71.
LoaderExts == <<"txt", "pdf", "xlsx", "xls">>

\* The outcome of a load(): the documents returned, or an exception.
Returned(docs) == [raised |-> FALSE, docs |-> docs]
Raised == [raised |-> TRUE, docs |-> <<>>]

TextDocument(f) == [page_content |-> FileText(f), source |-> f, detail |-> 0]
PdfDocument(f, i) == [page_content |-> PdfPages(f)[i], source |-> f, detail |-> i]

\* loader_cls(path).load() for one file.
\* TextLoader and PyPDFLoader raise on a file they cannot read; ExcelLoader
\* returns what it has (line 38-40).
FileLoad(f, bad) ==
    CASE Ext(f) = "txt" -> IF f \in bad THEN Raised ELSE Returned(<<TextDocument(f)>>)
      [] Ext(f) = "pdf" -> IF f \in bad THEN Raised
                           ELSE Returned([i \in 1..Len(PdfPages(f)) |-> PdfDocument(f, i)])
      [] OTHER          -> Returned(ExcelLoaderLoad(f, [opens |-> f \notin bad,
                                                        sheets |-> BookSheets]))

\* The files of the directory that match a glob, in listing order.
Matching(ext, files) ==
    SelectSeq(FileOrder, LAMBDA f : f \in files /\ Ext(f) = ext)

\* DirectoryLoader.load() with the default silent_errors=False: the documents
\* of all matching files, or the exception of the first file whose loader raises.
RECURSIVE DirectoryLoad(_, _, _)
DirectoryLoad(fileSeq, bad, docs) ==
    IF fileSeq = <<>> THEN Returned(docs)
    ELSE LET sub == FileLoad(Head(fileSeq), bad)
         IN  IF sub.raised THEN Raised
             ELSE DirectoryLoad(Tail(fileSeq), bad, docs \o sub.docs)

\* Lines 75-78: documents.extend(loader.load()) inside try/except.
ExtendFromLoader(documents, ext, files, bad) ==
    LET got == DirectoryLoad(Matching(ext, files), bad, <<>>)
    IN  IF got.raised THEN documents ELSE documents \o got.docs

\* Lines 85-90: RecursiveCharacterTextSplitter(chunk_size=500, chunk_overlap=50).
\* Every text of the model is shorter than chunk_size: a document gives one
\* chunk holding its stripped text, and no chunk when that is empty.
RECURSIVE SplitDocuments(_)
SplitDocuments(documents) ==
    IF documents = <<>> THEN <<>>
    ELSE LET d == Head(documents)
             t == Strip(d.page_content)
         IN  (IF t = <<>> THEN <<>> ELSE <<[d EXCEPT !.page_content = t]>>)
             \o SplitDocuments(Tail(documents))

\* ---------------------------------------------------------------------------
\* rag.py: the index, init_knowledge_base
\* ---------------------------------------------------------------------------
\* The value of vector_db: None (line 15), or an index object. An index being
\* constructed from split_docs holds the chunks added so far.
None == [set |-> FALSE, target |-> <<>>, chunks |-> <<>>]
NewIndex(split_docs) == [set |-> TRUE, target |-> split_docs, chunks |-> <<>>]

\* FAISS.from_documents has added every chunk and returns (line 98).
FromDocumentsAnyTime(new) == TRUE

FromDocumentsReturns(new) == new.chunks = new.target

\* The call, lines 45-46. The locals of a call that has returned are dropped:
\* between calls b_loader, b_documents and b_new hold their initial values.
InitCall ==
    /\ b_pc = "idle"
    /\ b_pc' = "exists"
    /\ q_clean' = FALSE
    /\ UNCHANGED <<vector_db, b_loader, b_documents, b_new, b_outcome, ever_built>>
    /\ UNCHANGED <<q_pc, q_query, q_k, q_used, q_docs, q_result>>
    /\ UNCHANGED <<ctVars, xlVars, fsVars, peVars, pecVars, clVars>>

\* Lines 49-52: a missing directory is created and the call returns.
InitCheckDir ==
    /\ b_pc = "exists"
    /\ IF ~fs_exists
       THEN /\ fs_exists' = TRUE
            /\ b_outcome' = "created"
            /\ b_pc' = "idle"
       ELSE /\ b_pc' = "load"
            /\ UNCHANGED <<fs_exists, b_outcome>>
    /\ UNCHANGED <<fs_files, fs_bad>>
    /\ UNCHANGED <<vector_db, b_loader, b_documents, b_new, ever_built>>
    /\ UNCHANGED <<ctVars, xlVars, qVars, peVars, pecVars, clVars>>

\* One pass of the loop of lines 74-78.
InitLoad ==
    /\ b_pc = "load"
    /\ b_loader <= Len(LoaderExts)
    /\ b_documents' = ExtendFromLoader(b_documents, LoaderExts[b_loader], fs_files, fs_bad)
    /\ b_loader' = b_loader + 1
    /\ UNCHANGED <<vector_db, b_pc, b_new, b_outcome, ever_built>>
    /\ UNCHANGED <<ctVars, xlVars, fsVars, qVars, peVars, pecVars, clVars>>

\* Lines 80-97: no document ends the call; otherwise the documents are split
\* and FAISS.from_documents starts on them.
InitCheckDocs ==
    /\ b_pc = "load"
    /\ b_loader > Len(LoaderExts)
    /\ IF b_documents = <<>>
       THEN /\ b_outcome' = "empty"
            /\ b_pc' = "idle"
            /\ b_loader' = 1
            /\ UNCHANGED <<b_new, b_documents>>
       ELSE /\ b_new' = NewIndex(SplitDocuments(b_documents))
            /\ b_pc' = "build"
            /\ UNCHANGED <<b_outcome, b_loader, b_documents>>
    /\ UNCHANGED <<vector_db, ever_built>>
    /\ UNCHANGED <<ctVars, xlVars, fsVars, qVars, peVars, pecVars, clVars>>

\* FAISS.from_documents embeds and adds the next chunk to the index it is
\* constructing (line 98, right-hand side).
InitBuildAdd ==
    /\ b_pc = "build"
    /\ Len(b_new.chunks) < Len(b_new.target)
    /\ b_new' = [b_new EXCEPT !.chunks = Append(@, b_new.target[Len(@) + 1])]
    /\ UNCHANGED <<vector_db, b_pc, b_loader, b_documents, b_outcome, ever_built>>
    /\ UNCHANGED <<ctVars, xlVars, fsVars, qVars, peVars, pecVars, clVars>>

\* FAISS.from_documents raises (the embedding service fails, or there is no
\* chunk to size the index with): the exception leaves init_knowledge_base.
InitBuildFail ==
    /\ b_pc = "build"
    /\ b_outcome' = "failed"
    /\ b_pc' = "idle"
    /\ b_loader' = 1
    /\ b_documents' = <<>>
    /\ b_new' = None
    /\ UNCHANGED <<vector_db, ever_built>>
    /\ UNCHANGED <<ctVars, xlVars, fsVars, qVars, peVars, pecVars, clVars>>

\* Line 98: the assignment to the global.
InitPublish ==
    /\ b_pc = "build"
    /\ FromDocumentsReturns(b_new)
    /\ vector_db' = b_new
    /\ ever_built' = TRUE
    /\ b_outcome' = "built"
    /\ b_pc' = "idle"
    /\ b_loader' = 1
    /\ b_documents' = <<>>
    /\ b_new' = None
    /\ UNCHANGED <<ctVars, xlVars, fsVars, qVars, peVars, pecVars, clVars>>

\* ---------------------------------------------------------------------------
\* rag.py: search_knowledge
\* ---------------------------------------------------------------------------
MaxK == 2

Queries == { <<"a">>, <<"a", "a">> }
TopKs == 1..MaxK

\* The string of line 104.
Sentinel == <<"knowledge base not initialized">>

\* The embedding of a text, reduced to one coordinate: its number of "a".
RECURSIVE Embed(_)
Embed(text) ==
    IF text = <<>> THEN 0
    ELSE (IF Head(text) = "a" THEN 1 ELSE 0) + Embed(Tail(text))

\* Squared L2 distance between a query and a chunk: smaller is more similar.
Dist(query, chunk) ==
    (Embed(query) - Embed(chunk.page_content)) * (Embed(query) - Embed(chunk.page_content))

RemoveAt(s, i) == SubSeq(s, 1, i - 1) \o SubSeq(s, i + 1, Len(s))

\* The chunks by increasing distance to the query, insertion order among equals.
RECURSIVE Ranked(_, _)
Ranked(chunks, query) ==
    IF chunks = <<>> THEN <<>>
    ELSE LET i == CHOOSE i \in 1..Len(chunks) :
                     \A j \in 1..Len(chunks) :
                        \/ Dist(query, chunks[i]) < Dist(query, chunks[j])
                        \/ Dist(query, chunks[i]) = Dist(query, chunks[j]) /\ i <= j
         IN  <<chunks[i]>> \o Ranked(RemoveAt(chunks, i), query)

\* index.similarity_search(query, k): the k nearest chunks, nearest first.
SimilaritySearch(index, query, k) ==
    LET r == Ranked(index.chunks, query)
    IN  SubSeq(r, 1, Min(k, Len(r)))

\* Line 103: if not vector_db.
NotInitializedNever(db) == FALSE

NotInitialized(db) == ~db.set

\* Line 106.
RelevantDocsIgnoreTopK(db, query, top_k) == SimilaritySearch(db, query, Len(db.chunks))

RelevantDocs(db, query, top_k) == SimilaritySearch(db, query, top_k)

PageContent(doc) == doc.page_content

\* Line 107.
Context(relevant_docs) == Join(MapSeq(PageContent, relevant_docs), <<"\n", "\n">>)

\* The call.
SearchCall ==
    /\ q_pc \in {"idle", "done", "raised"}
    /\ q_query' \in Queries
    /\ q_k' \in TopKs
    /\ q_pc' = "check"
    /\ q_used' = None
    /\ q_docs' = <<>>
    /\ q_result' = <<>>
    /\ q_clean' = (b_pc = "idle")
    /\ UNCHANGED <<ctVars, xlVars, fsVars, bVars, peVars, pecVars, clVars>>

\* Lines 103-104: the first read of the global.
SearchCheck ==
    /\ q_pc = "check"
    /\ IF NotInitialized(vector_db)
       THEN /\ q_result' = Sentinel
            /\ q_pc' = "done"
       ELSE /\ q_pc' = "search"
            /\ UNCHANGED <<q_result>>
    /\ UNCHANGED <<q_query, q_k, q_used, q_docs, q_clean>>
    /\ UNCHANGED <<ctVars, xlVars, fsVars, bVars, peVars, pecVars, clVars>>

\* Lines 106-107: the second read of the global, the search and the join.
\* None has no similarity_search: the call raises.
SearchReturn ==
    /\ q_pc = "search"
    /\ q_used' = vector_db
    /\ IF ~vector_db.set
       THEN /\ q_pc' = "raised"
            /\ UNCHANGED <<q_docs, q_result>>
       ELSE /\ q_docs' = RelevantDocs(vector_db, q_query, q_k)
            /\ q_result' = Context(q_docs')
            /\ q_pc' = "done"
    /\ UNCHANGED <<q_query, q_k, q_clean>>
    /\ UNCHANGED <<ctVars, xlVars, fsVars, bVars, peVars, pecVars, clVars>>

\* Line 106: embedding the query fails and similarity_search raises.
SearchRaise ==
    /\ q_pc = "search"
    /\ q_used' = vector_db
    /\ q_pc' = "raised"
    /\ UNCHANGED <<q_query, q_k, q_docs, q_result, q_clean>>
    /\ UNCHANGED <<ctVars, xlVars, fsVars, bVars, peVars, pecVars, clVars>>

\* ---------------------------------------------------------------------------
\* pdf_extractor.py: extract_all_pdfs_in_folder
\* ---------------------------------------------------------------------------
\* extract_pdf_content: None when the text of the PDF cannot be extracted
\* (lines 76-78), the result otherwise (lines 185-192).
ExtractPdfContent(f, bad) ==
    IF f \in bad THEN [none |-> TRUE, pdf_name |-> f, total_pages |-> 0]
    ELSE [none |-> FALSE, pdf_name |-> f, total_pages |-> Len(PdfPages(f))]

\* Lines 217-228: the loop over pdf_files.
RECURSIVE ExtractEach(_, _, _)
ExtractEach(pdf_files, bad, results) ==
    IF pdf_files = <<>> THEN results
    ELSE LET result == ExtractPdfContent(Head(pdf_files), bad)
         IN  ExtractEach(Tail(pdf_files), bad,
                         IF result.none THEN results ELSE Append(results, result))

\* extract_all_pdfs_in_folder(folder_path) on the knowledge-base directory,
\* lines 206-230; os.listdir raises when the directory is missing.
ExtractAll ==
    /\ pe_pc \in {"idle", "done", "raised"}
    /\ IF ~fs_exists
       THEN /\ pe_pc' = "raised"
            /\ pe_results' = <<>>
       ELSE /\ pe_pc' = "done"
            /\ pe_results' = ExtractEach(Matching("pdf", fs_files), fs_bad, <<>>)
    /\ UNCHANGED <<ctVars, xlVars, fsVars, bVars, qVars, pecVars, clVars>>

\* ---------------------------------------------------------------------------
\* embed_content.py: process_extracted_content
\* ---------------------------------------------------------------------------
MaxRuns == 3

\* chunk_size=500 and overlap=100 of line 146, scaled by 100 to the texts of
\* the model.
PecChunkSize == 5
PecOverlap == 1

\* chunk_text as a function: the loop of lines 49-56 run to its end.
RECURSIVE ChunkFrom(_, _, _, _, _)
ChunkFrom(text, size, overlap, start, chunks) ==
    IF start < Len(text)
    THEN LET r == ChunkBody(text, size, overlap, start, chunks)
         IN  ChunkFrom(text, size, overlap, r.start, r.chunks)
    ELSE chunks

ChunkText(text, size, overlap) == ChunkFrom(text, size, overlap, 0, <<>>)

\* The document folders and what they may hold: a text file or none
\* (NoText), and image files.
DocNames == {"d1", "d2"}
NoText == <<"<no text file>">>
DocTexts == { NoText, <<"a", "a", "a", "a", "a", "a", "b">>, <<" ", " ">> }
ImageNames == {"p1.png"}
Folders == [text : DocTexts, images : SUBSET ImageNames]
ContentDirs == UNION {[D -> Folders] : D \in SUBSET DocNames}

TextFile(doc) == <<doc, "text.txt">>
ImageFile(doc, img) == <<doc, "images", img>>

\* The units whose embedding may fail.
BadUnits == { <<"a", "a", "a", "a", "a">>, ImageFile("d1", "p1.png") }

\* get_text_embedding / get_image_embedding, lines 61-104: the embedding of
\* the unit, or None (here the empty vector) when the backend fails on it.
NoEmbedding == <<>>
GetTextEmbedding(text, bad) == IF text \in bad THEN NoEmbedding ELSE <<Embed(text)>>
GetImageEmbedding(path, bad) == IF path \in bad THEN NoEmbedding ELSE <<Len(path)>>

\* The records of lines 155-162 and 183-189. A field a record lacks holds
\* -1 (chunk_index) or the empty string (content, image_name).
TextRecord(doc, idx, chunk, embedding) ==
    [document |-> doc, type |-> "text", chunk_index |-> idx, content |-> chunk,
     image_name |-> "", embedding |-> embedding, source_file |-> TextFile(doc)]

ImageRecord(doc, img, embedding) ==
    [document |-> doc, type |-> "image", chunk_index |-> -1, content |-> <<>>,
     image_name |-> img, embedding |-> embedding, source_file |-> ImageFile(doc, img)]

\* Lines 150-163: the records inserted for the chunks of a text (idx counts
\* from 0).
TextInsertsUntilFailure(doc, chunks, bad) ==
    LET stored == {i \in 1..Len(chunks) :
                     \A j \in 1..i : GetTextEmbedding(chunks[j], bad) # NoEmbedding}
    IN  {TextRecord(doc, i - 1, chunks[i], GetTextEmbedding(chunks[i], bad)) : i \in stored}

TextInserts(doc, chunks, bad) ==
    LET stored == {i \in 1..Len(chunks) : GetTextEmbedding(chunks[i], bad) # NoEmbedding}
    IN  {TextRecord(doc, i - 1, chunks[i], GetTextEmbedding(chunks[i], bad)) : i \in stored}

\* Lines 178-190.
ImageInserts(doc, images, bad) ==
    LET stored == {img \in images : GetImageEmbedding(ImageFile(doc, img), bad) # NoEmbedding}
    IN  {ImageRecord(doc, img, GetImageEmbedding(ImageFile(doc, img), bad)) : img \in stored}

\* Lines 137-192: everything inserted for one document folder.
FolderInserts(doc, folder, bad) ==
    (IF folder.text = NoText THEN {}
     ELSE TextInserts(doc, ChunkText(folder.text, PecChunkSize, PecOverlap), bad))
    \cup ImageInserts(doc, folder.images, bad)

\* insert_one for each record of a set of distinct records.
InsertAll(coll, records) == coll (+) SetToBag(records)

\* Line 116: delete_many({}).
DeleteManyNothing(coll) == coll

DeleteMany(coll) == EmptyBag

\* Between calls the extracted-content directory is replaced, or the backend
\* is replaced by one that fails on other units.
CdChange ==
    /\ pec_pc \in {"idle", "done", "early", "raised"}
    /\ \E e \in BOOLEAN, d \in ContentDirs, bad \in SUBSET BadUnits :
          /\ cd_exists' = e
          /\ cd_folders' = IF e THEN d ELSE << >>
          /\ emb_bad' = bad
          /\ <<cd_exists', cd_folders', emb_bad'>> # <<cd_exists, cd_folders, emb_bad>>
    /\ pec_runs' = 0
    /\ db_first' = EmptyBag
    /\ UNCHANGED <<db_coll, pec_pc, pec_todo, pec_client, pec_deleted>>
    /\ UNCHANGED <<ctVars, xlVars, fsVars, bVars, qVars, peVars, clVars>>

\* Line 111: get_mongodb_client() returns a connected client.
PecCall ==
    /\ pec_pc \in {"idle", "done", "early", "raised"}
    /\ pec_runs < MaxRuns
    /\ pec_pc' = "connected"
    /\ pec_client' = "open"
    /\ pec_deleted' = 0
    /\ UNCHANGED <<cd_exists, cd_folders, emb_bad, db_coll, pec_todo, pec_runs, db_first>>
    /\ UNCHANGED <<ctVars, xlVars, fsVars, bVars, qVars, peVars, clVars>>

\* Line 111: get_mongodb_client() raises (mongodb_client.py lines 61-66).
PecConnectFail ==
    /\ pec_pc \in {"idle", "done", "early", "raised"}
    /\ pec_runs < MaxRuns
    /\ pec_pc' = "raised"
    /\ pec_client' = "none"
    /\ pec_deleted' = 0
    /\ UNCHANGED <<cd_exists, cd_folders, emb_bad, db_coll, pec_todo, pec_runs, db_first>>
    /\ UNCHANGED <<ctVars, xlVars, fsVars, bVars, qVars, peVars, clVars>>

\* Lines 115-117.
PecClear ==
    /\ pec_pc = "connected"
    /\ db_coll' = DeleteMany(db_coll)
    /\ pec_deleted' = BagCardinality(db_coll) - BagCardinality(db_coll')
    /\ pec_pc' = "cleared"
    /\ UNCHANGED <<cd_exists, cd_folders, emb_bad, pec_todo, pec_client, pec_runs, db_first>>
    /\ UNCHANGED <<ctVars, xlVars, fsVars, bVars, qVars, peVars, clVars>>

\* Lines 121-123: the client of a call that returns early.
EarlyReturnClientClosed(client) == "closed"

EarlyReturnClient(client) == client

\* Lines 119-129: a missing directory ends the call; otherwise iterdir starts.
PecCheckDir ==
    /\ pec_pc = "cleared"
    /\ IF ~cd_exists
       THEN /\ pec_pc' = "early"
            /\ pec_runs' = pec_runs + 1
            /\ db_first' = IF pec_runs = 0 THEN db_coll ELSE db_first
            /\ pec_client' = EarlyReturnClient(pec_client)
            /\ UNCHANGED <<pec_todo, pec_deleted>>
       ELSE /\ pec_pc' = "folders"
            /\ pec_todo' = DOMAIN cd_folders
            /\ pec_deleted' = 0
            /\ UNCHANGED <<pec_runs, db_first, pec_client>>
    /\ UNCHANGED <<cd_exists, cd_folders, emb_bad, db_coll>>
    /\ UNCHANGED <<ctVars, xlVars, fsVars, bVars, qVars, peVars, clVars>>

\* One pass of the loop of lines 129-194, on the folder iterdir yields next
\* (in any order).
PecFolder ==
    /\ pec_pc = "folders"
    /\ \E doc \in pec_todo :
          /\ db_coll' = InsertAll(db_coll, FolderInserts(doc, cd_folders[doc], emb_bad))
          /\ pec_todo' = pec_todo \ {doc}
    /\ UNCHANGED <<cd_exists, cd_folders, emb_bad, pec_pc, pec_client, pec_deleted, pec_runs,
                   db_first>>
    /\ UNCHANGED <<ctVars, xlVars, fsVars, bVars, qVars, peVars, clVars>>

\* Lines 196-214: the summary, the indexes, mongo_client.close().
PecFinish ==
    /\ pec_pc = "folders"
    /\ pec_todo = {}
    /\ pec_client' = "closed"
    /\ pec_pc' = "done"
    /\ pec_runs' = pec_runs + 1
    /\ db_first' = IF pec_runs = 0 THEN db_coll ELSE db_first
    /\ UNCHANGED <<cd_exists, cd_folders, emb_bad, db_coll, pec_todo, pec_deleted>>
    /\ UNCHANGED <<ctVars, xlVars, fsVars, bVars, qVars, peVars, clVars>>

\* ---------------------------------------------------------------------------
\* pdf_extractor.py: the text extraction of extract_pdf_content
\* ---------------------------------------------------------------------------
MaxPages == 2
MaxLines == 2

\* text.split('\n')
RECURSIVE SplitLines(_, _)
SplitLines(text, line) ==
    IF text = <<>> THEN <<line>>
    ELSE IF Head(text) = "\n" THEN <<line>> \o SplitLines(Tail(text), <<>>)
    ELSE SplitLines(Tail(text), Append(line, Head(text)))

\* str.isdigit()
IsDigit(line) ==
    line # <<>> /\ \A i \in 1..Len(line) : \E d \in 1..Len(DigitChars) : line[i] = DigitChars[d]

\* Lines 57-69: the loop over the lines of a page.
RECURSIVE CleanLinesShortNumbers(_, _)
CleanLinesShortNumbers(lines, cleaned_lines) ==
    IF lines = <<>> THEN cleaned_lines
    ELSE LET line == Strip(Head(lines))
         IN  IF line = <<>> THEN CleanLinesShortNumbers(Tail(lines), cleaned_lines)
             ELSE IF IsDigit(line) /\ Len(line) < 3
                  THEN CleanLinesShortNumbers(Tail(lines), cleaned_lines)
             ELSE IF Len(line) < 3 THEN CleanLinesShortNumbers(Tail(lines), cleaned_lines)
             ELSE CleanLinesShortNumbers(Tail(lines), Append(cleaned_lines, line))

RECURSIVE CleanLines(_, _)
CleanLines(lines, cleaned_lines) ==
    IF lines = <<>> THEN cleaned_lines
    ELSE LET line == Strip(Head(lines))
         IN  IF line = <<>> THEN CleanLines(Tail(lines), cleaned_lines)
             ELSE IF IsDigit(line) /\ Len(line) <= 3
                  THEN CleanLines(Tail(lines), cleaned_lines)
             ELSE IF Len(line) < 3 THEN CleanLines(Tail(lines), cleaned_lines)
             ELSE CleanLines(Tail(lines), Append(cleaned_lines, line))

\* Lines 52-74: what one page adds to all_text.
AddPageText(all_text, text) ==
    IF text = <<>> THEN all_text
    ELSE LET cleaned_lines == CleanLines(SplitLines(text, <<>>), <<>>)
         IN  IF cleaned_lines = <<>> THEN all_text
             ELSE Append(all_text, Join(cleaned_lines, <<"\n">>))

\* The lines pages are made of, and what extract_text() returns for a page:
\* no text (None or ""), or some lines joined by newlines.
PageLines ==
    { <<>>, <<"1", "2">>, <<"1", "2", "3">>, <<"1", "2", "3", "4">>, <<"a", "b">>,
      <<" ", "a", "b", "c", " ">> }
PageTexts ==
    {<<>>} \cup {Join(ls, <<"\n">>) : ls \in (SeqsUpTo(PageLines, MaxLines) \ {<<>>})}

\* Lines 32-35: pdfplumber opens a PDF of some number of pages.
ClOpen ==
    /\ cl_pc \in {"idle", "done", "none"}
    /\ cl_total' \in 0..MaxPages
    /\ cl_num' = 0
    /\ cl_text' = <<>>
    /\ cl_all_text' = <<>>
    /\ cl_full_text' = <<>>
    /\ cl_pc' = "pages"
    /\ UNCHANGED <<ctVars, xlVars, fsVars, bVars, qVars, peVars, pecVars>>

\* One pass of the loop of lines 36-74 over a page with some text.
ClPage ==
    /\ cl_pc = "pages"
    /\ cl_num < cl_total
    /\ cl_text' \in PageTexts
    /\ cl_all_text' = AddPageText(cl_all_text, cl_text')
    /\ cl_num' = cl_num + 1
    /\ UNCHANGED <<cl_pc, cl_total, cl_full_text>>
    /\ UNCHANGED <<ctVars, xlVars, fsVars, bVars, qVars, peVars, pecVars>>

\* Lines 76-78: opening the PDF or a page raises, extract_pdf_content
\* returns None.
ClFail ==
    /\ cl_pc \in {"idle", "done", "none", "pages"}
    /\ cl_pc' = "none"
    /\ cl_total' = 0
    /\ cl_num' = 0
    /\ cl_text' = <<>>
    /\ cl_all_text' = <<>>
    /\ cl_full_text' = <<>>
    /\ UNCHANGED <<ctVars, xlVars, fsVars, bVars, qVars, peVars, pecVars>>

\* Line 80, after the last page.
ClJoin ==
    /\ cl_pc = "pages"
    /\ cl_num = cl_total
    /\ cl_full_text' = Join(cl_all_text, <<"\n", "\n">>)
    /\ cl_pc' = "done"
    /\ UNCHANGED <<cl_total, cl_num, cl_text, cl_all_text>>
    /\ UNCHANGED <<ctVars, xlVars, fsVars, bVars, qVars, peVars, pecVars>>

\* ---------------------------------------------------------------------------
\* Specifications
\* ---------------------------------------------------------------------------
Init ==
    /\ ct_pc = "idle"
    /\ ct_text = <<>>
    /\ ct_size = 1
    /\ ct_overlap = 0
    /\ ct_start = 0
    /\ ct_chunks = <<>>
    /\ xl_pc = "idle"
    /\ xl_wb = [opens |-> TRUE, sheets |-> <<>>]
    /\ xl_docs = <<>>
    /\ fs_exists = FALSE
    /\ fs_files = {}
    /\ fs_bad = {}
    /\ vector_db = None
    /\ b_pc = "idle"
    /\ b_loader = 1
    /\ b_documents = <<>>
    /\ b_new = None
    /\ b_outcome = "none"
    /\ ever_built = FALSE
    /\ q_pc = "idle"
    /\ q_query = <<>>
    /\ q_k = 1
    /\ q_used = None
    /\ q_docs = <<>>
    /\ q_result = <<>>
    /\ q_clean = TRUE
    /\ pe_pc = "idle"
    /\ pe_results = <<>>
    /\ cd_exists = FALSE
    /\ cd_folders = << >>
    /\ emb_bad = {}
    /\ db_coll = EmptyBag
    /\ pec_pc = "idle"
    /\ pec_todo = {}
    /\ pec_client = "none"
    /\ pec_deleted = 0
    /\ pec_runs = 0
    /\ db_first = EmptyBag
    /\ cl_pc = "idle"
    /\ cl_total = 0
    /\ cl_num = 0
    /\ cl_text = <<>>
    /\ cl_all_text = <<>>
    /\ cl_full_text = <<>>

\* chunk_text called again and again.
NextChunk == ChunkCall \/ ChunkLoop \/ ChunkReturn

SpecChunk == Init /\ [][NextChunk]_vars

\* The interpreter runs a started call on: every enabled step of the loop is
\* eventually taken.
FairSpecChunk == SpecChunk /\ WF_vars(ChunkLoop) /\ WF_vars(ChunkReturn)

\* ExcelLoader on every workbook.
NextExcel == XlNew \/ XlLoad

SpecExcel == Init /\ [][NextExcel]_vars

InitSteps ==
    \/ InitCall
    \/ InitCheckDir
    \/ InitLoad
    \/ InitCheckDocs
    \/ InitBuildAdd
    \/ InitBuildFail
    \/ InitPublish

SearchSteps == SearchCall \/ SearchCheck \/ SearchReturn \/ SearchRaise

\* The retrieval service: init_knowledge_base (at startup and again) runs
\* concurrently with search_knowledge while users change the directory
\* between builds.
NextRag == FsMkdir \/ FsPut(RagFiles) \/ FsRemove \/ InitSteps \/ SearchSteps

Spec == Init /\ [][NextRag]_vars

\* Ingestion: init_knowledge_base and the batch PDF extraction over a
\* directory of every format.
NextIngest == FsMkdir \/ FsPut(IngestFiles) \/ FsRemove \/ InitSteps \/ ExtractAll

SpecIngest == Init /\ [][NextIngest]_vars

\* The embedding job run again and again over a directory that changes
\* between runs.
NextEmbed ==
    CdChange \/ PecCall \/ PecConnectFail \/ PecClear \/ PecCheckDir \/ PecFolder \/ PecFinish

SpecEmbed == Init /\ [][NextEmbed]_vars

\* The text extraction of extract_pdf_content on every PDF.
NextClean == ClOpen \/ ClPage \/ ClFail \/ ClJoin

SpecClean == Init /\ [][NextClean]_vars

\* ---------------------------------------------------------------------------
\* Claims about chunk_text
\* ---------------------------------------------------------------------------
ChunkPre == Len(ct_text) > 0 /\ 0 <= ct_overlap /\ ct_overlap < ct_size

\* C1: for nonempty text and 0 <= overlap < chunk_size, a call of chunk_text
\* terminates, and every chunk it collects has length at most chunk_size.
C1_ChunkTerminatesBounded ==
    /\ [](ChunkPre => \A i \in 1..Len(ct_chunks) : Len(ct_chunks[i]) <= ct_size)
    /\ ((ct_pc = "loop" /\ ChunkPre) ~> (ct_pc = "done"))

\* A call within the precondition has returned two chunks or more.
C1_Witness == ct_pc = "done" /\ ChunkPre /\ Len(ct_chunks) >= 2

\* C2: a call with overlap >= chunk_size on a nonempty text ends in an error
\* outcome raised by a precondition check; it never enters the loop.
C2_RejectsBadOverlap ==
    (ct_pc # "idle" /\ Len(ct_text) > 0 /\ ct_overlap >= ct_size) => ct_pc = "error"

\* ---------------------------------------------------------------------------
\* Claims about the retrieval service
\* ---------------------------------------------------------------------------
\* C3: as long as no build has completed successfully, search_knowledge does
\* not raise and what it returns is the "not initialized" string.
C3_SentinelBeforeBuild ==
    ~ever_built => (q_pc # "raised" /\ (q_pc = "done" => q_result = Sentinel))

\* A call made after a failed build has returned.
C3_Witness ==
    q_pc = "done" /\ q_clean /\ b_outcome = "failed" /\ ~ever_built /\ q_result = Sentinel

\* C4: a search made after init_knowledge_base returned from a missing
\* directory or from a directory without documents does not return what a
\* search returns before any build, the "not initialized" string.
C4_EmptyBuildDistinguishable ==
    (q_pc = "done" /\ q_clean /\ b_outcome \in {"created", "empty"}) => q_result # Sentinel

IsComplete(index) == index.set /\ index.chunks = index.target

\* C5: vector_db is None or a fully constructed index, the index a search
\* uses is fully constructed, and vector_db changes only in the step that
\* ends a successful build, to the index that build has fully constructed.
C5_NoPartialIndex ==
    /\ [](vector_db.set => IsComplete(vector_db))
    /\ [](q_used.set => IsComplete(q_used))
    /\ [][vector_db' # vector_db =>
            /\ b_pc = "build" /\ b_pc' = "idle" /\ b_outcome' = "built"
            /\ IsComplete(b_new)
            /\ vector_db' = b_new]_vars

\* A search has used the previous index while a rebuild from other documents
\* had already added chunks to its new index.
C5_Witness ==
    /\ q_pc = "done" /\ ~q_clean /\ q_used.set
    /\ b_pc = "build" /\ Len(b_new.chunks) >= 1
    /\ b_new.target # q_used.target

\* C6: when a call of init_knowledge_base returns, the published index holds
\* exactly the chunks of the documents that call loaded.
C6_IndexMatchesLatestScan ==
    [][(b_pc # "idle" /\ b_pc' = "idle" /\ b_outcome' # "failed") =>
          vector_db'.chunks = SplitDocuments(b_documents)]_vars

\* C7: a search of a built index returns at most top_k chunks of that index,
\* nearest to the query first, none farther from the query than a chunk left
\* out, and their texts joined by two newlines.
C7_TopKRanked ==
    (q_pc = "done" /\ q_used.set) =>
        LET chunks   == q_used.chunks
            included == {q_docs[i] : i \in 1..Len(q_docs)}
            left_out == {chunks[i] : i \in 1..Len(chunks)} \ included
        IN  /\ Len(q_docs) <= q_k
            /\ Cardinality(included) = Len(q_docs)
            /\ included \subseteq {chunks[i] : i \in 1..Len(chunks)}
            /\ \A i \in 1..(Len(q_docs) - 1) :
                  Dist(q_query, q_docs[i]) <= Dist(q_query, q_docs[i + 1])
            /\ \A d \in included, c \in left_out : Dist(q_query, d) <= Dist(q_query, c)
            /\ q_result = Join([i \in 1..Len(q_docs) |-> q_docs[i].page_content],
                               <<"\n", "\n">>)

\* A search with top_k of 2 or more has left chunks of the index out.
C7_Witness ==
    /\ q_pc = "done" /\ q_used.set
    /\ q_k >= 2 /\ Len(q_docs) = q_k /\ Len(q_used.chunks) > q_k

\* ---------------------------------------------------------------------------
\* Claims about ingestion
\* ---------------------------------------------------------------------------
\* One document for every worksheet that can be read, in workbook order.
RECURSIVE ReadableSheetDocuments(_, _, _)
ReadableSheetDocuments(path, sheets, i) ==
    IF i > Len(sheets) THEN <<>>
    ELSE (IF sheets[i].ok THEN <<SheetDocument(path, i, sheets[i].rows)>> ELSE <<>>)
         \o ReadableSheetDocuments(path, sheets, i + 1)

\* C8: load() on a workbook that opens returns one Document for every
\* readable worksheet, wherever the unreadable worksheets are.
C8_SkipsOnlyFailingSheet ==
    (xl_pc = "done" /\ xl_wb.opens) =>
        xl_docs = ReadableSheetDocuments(XlPath, xl_wb.sheets, 1)

\* The documents of the readable files of the directory.
ReadableDocuments ==
    UNION { {FileLoad(f, fs_bad).docs[i] : i \in 1..Len(FileLoad(f, fs_bad).docs)} :
            f \in fs_files \ fs_bad }

\* C9: when the loaders of init_knowledge_base are through, the documents of
\* every readable file of the directory are loaded; and a run of
\* extract_all_pdfs_in_folder that returns has a result for every readable PDF.
C9_FailuresContained ==
    /\ []((b_pc = "load" /\ b_loader > Len(LoaderExts)) =>
             ReadableDocuments \subseteq {b_documents[i] : i \in 1..Len(b_documents)})
    /\ [][(pe_pc' = "done" /\ <<pe_pc, pe_results>> # <<pe_pc', pe_results'>>) =>
             \A f \in fs_files \ fs_bad :
                Ext(f) = "pdf" =>
                   \E i \in 1..Len(pe_results') : pe_results'[i].pdf_name = f]_vars

\* ---------------------------------------------------------------------------
\* Claims about the embedding job
\* ---------------------------------------------------------------------------
\* C10: with the directory and the backend unchanged, every further run of
\* process_extracted_content leaves the collection as the first run left it,
\* and no run leaves a record in it twice.
C10_RerunIdempotent ==
    (pec_pc \in {"done", "early"}) =>
        /\ pec_runs >= 2 => db_coll = db_first
        /\ \A r \in BagToSet(db_coll) : CopiesIn(r, db_coll) = 1

\* A second or later run over the same directory has left three records or more.
C10_Witness ==
    pec_pc = "done" /\ pec_runs >= 2 /\ BagCardinality(db_coll) >= 3

\* The run that has returned saw the directory and the backend as they are now.
RunOnCurrentDir == pec_pc = "done" /\ pec_runs >= 1

TextStored(doc, idx, chunk) ==
    \E r \in BagToSet(db_coll) :
       r.document = doc /\ r.type = "text" /\ r.chunk_index = idx /\ r.content = chunk

ImageStored(doc, img) ==
    \E r \in BagToSet(db_coll) : r.document = doc /\ r.type = "image" /\ r.image_name = img

\* C11: after a run, a chunk or image has a record exactly when the backend
\* did not fail on it, whatever failed before it in the batch, and every
\* record holds a non-empty embedding.
C11_EmbeddingFailureContained ==
    RunOnCurrentDir =>
        /\ \A doc \in DOMAIN cd_folders :
              /\ cd_folders[doc].text # NoText =>
                    LET chunks == ChunkText(cd_folders[doc].text, PecChunkSize, PecOverlap)
                    IN  \A i \in 1..Len(chunks) :
                           TextStored(doc, i - 1, chunks[i]) <=> chunks[i] \notin emb_bad
              /\ \A img \in cd_folders[doc].images :
                    ImageStored(doc, img) <=> ImageFile(doc, img) \notin emb_bad
        /\ \A r \in BagToSet(db_coll) : r.embedding # NoEmbedding

\* The backend failed on the first chunk and on the image of d1; the second
\* chunk of d1 and the image of d2 are stored.
C11_Witness ==
    /\ RunOnCurrentDir
    /\ emb_bad = BadUnits
    /\ DOMAIN cd_folders = DocNames
    /\ Len(cd_folders["d1"].text) > PecChunkSize
    /\ cd_folders["d1"].images = ImageNames
    /\ cd_folders["d2"].images = ImageNames
    /\ TextStored("d1", 1, <<"a", "a", "b">>)
    /\ ImageStored("d2", "p1.png")

\* ---------------------------------------------------------------------------
\* More claims about chunk_text
\* ---------------------------------------------------------------------------
\* The windows text[s : s + chunk_size] for s = 0, step, 2*step, ... below
\* len(text), each stripped, the empty ones left out.
ExpectedChunks(text, size, overlap) ==
    LET step    == size - overlap
        n       == (Len(text) + step - 1) \div step
        windows == [k \in 1..n |->
                       Strip(PySlice(text, (k - 1) * step, (k - 1) * step + size))]
    IN  SelectSeq(windows, LAMBDA w : w # <<>>)

\* C12: for overlap < chunk_size, chunk_text returns exactly the stripped
\* non-empty windows at the starts 0, step, 2*step, ... in that order; start
\* advances by step in every pass; no chunk is empty or begins or ends with
\* whitespace; the 15-character example gives 5 chunks.
C12_ExactWindows ==
    /\ []((ct_pc = "done" /\ ct_overlap < ct_size) =>
             /\ ct_chunks = ExpectedChunks(ct_text, ct_size, ct_overlap)
             /\ \A i \in 1..Len(ct_chunks) :
                   /\ ct_chunks[i] # <<>>
                   /\ ~IsSpace(ct_chunks[i][1])
                   /\ ~IsSpace(ct_chunks[i][Len(ct_chunks[i])]))
    /\ []((ct_pc = "done" /\ <<ct_text, ct_size, ct_overlap>> = ExampleCall) =>
             Len(ct_chunks) = 5)
    /\ [][(ct_pc = "loop" /\ ct_pc' = "loop" /\ ct_overlap < ct_size) =>
             ct_start' = ct_start + (ct_size - ct_overlap)]_vars

\* The call of the example has returned its five chunks.
C12_Witness ==
    /\ ct_pc = "done"
    /\ <<ct_text, ct_size, ct_overlap>> = ExampleCall
    /\ ct_chunks = << <<"A", "A", "A", "A", "A">>, <<"A", "A", "B", "B", "B">>,
                      <<"B", "B", "B", "B", "C">>, <<"B", "C", "C", "C", "C">>,
                      <<"C", "C", "C">> >>

\* ---------------------------------------------------------------------------
\* Claims about the page cleanup
\* ---------------------------------------------------------------------------
\* A stripped line is kept when it is not empty, has 3 characters or more
\* and is not a number of 3 digits or fewer.
KeptLine(line) == line # <<>> /\ Len(line) >= 3 /\ ~(IsDigit(line) /\ Len(line) <= 3)

\* The stripped lines of a page text that are kept, in their order.
KeptLines(text) ==
    LET lines == SplitLines(text, <<>>)
    IN  SelectSeq([i \in 1..Len(lines) |-> Strip(lines[i])], KeptLine)

\* C13: a pass over a page appends to all_text the kept lines of the page,
\* in order and joined by newlines, and appends nothing when no line of the
\* page is kept; all_text never holds an empty entry.
C13_PageCleanup ==
    /\ [][(cl_pc = "pages" /\ cl_num' = cl_num + 1) =>
             cl_all_text' = IF KeptLines(cl_text') = <<>> THEN cl_all_text
                            ELSE Append(cl_all_text, Join(KeptLines(cl_text'), <<"\n">>))]_vars
    /\ [](\A i \in 1..Len(cl_all_text) : cl_all_text[i] # <<>>)

\* A first page has given a kept line; the second page, a page number and a
\* short line, has given nothing.
C13_Witness ==
    /\ cl_pc = "done"
    /\ cl_total = 2
    /\ cl_text = <<"1", "2", "3", "\n", "a", "b">>
    /\ cl_all_text = << <<"a", "b", "c">> >>

\* C14: the collection is already empty when process_extracted_content
\* checks the directory; the call returns early only from that check and
\* only when the directory is missing, inserts nothing, and leaves the
\* collection empty and its client open.
C14_DeleteBeforeDirCheck ==
    /\ [](pec_pc = "cleared" => db_coll = EmptyBag)
    /\ [](pec_pc = "early" => (db_coll = EmptyBag /\ pec_client = "open"))
    /\ [][(pec_pc # "early" /\ pec_pc' = "early") =>
             (pec_pc = "cleared" /\ ~cd_exists /\ db_coll' = db_coll)]_vars

\* A call on a missing directory has returned after deleting three records
\* or more.
C14_Witness ==
    pec_pc = "early" /\ ~cd_exists /\ pec_deleted >= 3 /\ db_coll = EmptyBag

====
